---- MODULE Spec2Model ----
(***************************************************************************)
(* Model of the mongodb-nodejs-sdk data-access layer (src/utils.js): the   *)
(* DBConnection class, that is the keyset paginator workOnItPageByPage,    *)
(* the bulk batch operations and the {status, resp, text} envelope the     *)
(* operations return.                                                      *)
(*                                                                         *)
(* A document is a record [_id, status]; a query is a record of optional   *)
(* predicates, an optional value being the empty set (absent) or a         *)
(* singleton (present): query.status = {s} is the equality predicate       *)
(* {status: s}, query._id = {k} is {_id: {$gt: k}}.                        *)
(*                                                                         *)
(* One caller issues the operations one after the other (each call is      *)
(* awaited).  The store answers a command by resolving or rejecting its    *)
(* promise.  The contents of the collection change only where a            *)
(* specification says so (SpecInsert, SpecWrites).                         *)
(*                                                                         *)
(*   Spec        the paginator on an initialized or uninitialized handle   *)
(*   SpecBulk    bulkCreate and bulkUpdate on every argument list          *)
(*   SpecEnv     every operation of DBConnection and what it returns       *)
(*   SpecBatch   processABatchOfDocuments                                  *)
(*   SpecHandle  the operations that use the handle outside a try          *)
(*   SpecLive    the paginator when every call it awaits settles           *)
(*   SpecInsert  the paginator while another process inserts documents     *)
(*   SpecWrites  the paginator while its handler writes to the collection  *)
(*   SpecTwo     two traversals sharing one query object                   *)
(*   SpecLegacy  the functions that connect on every call                  *)
(***************************************************************************)
EXTENDS Integers, Sequences, FiniteSets, TLC

\* ------------------------------------------------------------------ bounds
\* Largest primary key a document of the collection may carry.
MaxKey == 4
\* Largest page size a caller passes.
MaxPage == 3
\* Number of times the caller runs the paginator.
MaxRuns == 2
\* Longest list handed to bulkCreate / bulkUpdate.
MaxUpdates == 2
\* Largest key an update payload names.
MaxBulkKey == 2

\* Documents another process inserts during one traversal.
MaxInserts == 1
\* Calls of the connect-per-call functions.
MaxCalls == 3

Keys == 1..MaxKey
Statuses == {"done", "new"}
Documents == [_id : Keys, status : Statuses]
\* The collections: _id is unique within a collection.
Collections == {c \in SUBSET Documents : \A d, e \in c : d._id = e._id => d = e}
\* The queries a caller builds: an optional equality predicate on status and
\* an optional lower bound on _id (a caller resuming from a persisted key).
Queries == [status : {{}, {"done"}}, _id : {{}} \cup {{k} : k \in Keys}]

Min(a, b) == IF a < b THEN a ELSE b
\* The sequences over S of length at most n.
SeqUpTo(S, n) == UNION {[1..m -> S] : m \in 0..n}

\* ------------------------------------------------------------------ values
\* What a promise settles with.  Every value is a record of one shape, so
\* that any two values can be compared: an envelope {status, resp, text}
\* (resp and text are "absent" when the envelope has no such key), the
\* value a handler resolved with, or an error.
Absent == "absent"
Undefined == "undefined"
Envelope(status, resp, text) ==
    [type |-> "envelope", status |-> status, resp |-> resp, text |-> text]
HandlerValue == [type |-> "handler value", status |-> TRUE, resp |-> Absent, text |-> Absent]
ErrorValue(message) == [type |-> "error", status |-> FALSE, resp |-> Absent, text |-> message]
DriverMessage == "driver error"
HandlerMessage == "handler error"
TypeErrorMessage == "Cannot read property 'collection' of null"
ObjectIDMessage == "Argument passed in must be a single String of 12 bytes or a string of 24 hex characters"
Pending == [settled |-> "pending", value |-> ErrorValue(Absent)]
Fulfilled(v) == [settled |-> "fulfilled", value |-> v]
Rejected(message) == [settled |-> "rejected", value |-> ErrorValue(message)]

\* What processABatchOfDocuments resolves with on an empty window: false.
False == [type |-> "boolean", status |-> FALSE, resp |-> Absent, text |-> Absent]

\* The aggregate reports batch.execute() resolves with: every operation
\* applied, or some operations recorded as failed in the report.
Reports == {"BulkWriteResult", "BulkWriteResult with writeErrors"}
NoReport == "no report"

\* The record of an operation other than the paginator: its name, whether
\* its list argument was "empty" or "nonempty" ("n/a": it takes no list),
\* the store's answer to its command ("none": no command was issued,
\* "pending": the command's promise has not settled yet, "ok", "failed") and
\* how the operation's own promise settled.
Returned(op, arg, driver, r) == [op |-> op, arg |-> arg, driver |-> driver, ret |-> r]
NoRun == [arg0 |-> [status |-> {}, _id |-> {}], windows |-> <<>>, ret |-> Pending]

\* ------------------------------------------------------------------ bulk arguments
\* An _id a caller puts into an update payload: an ObjectID, the 24 hex
\* characters of one, a number, or a string that is no ObjectID.
IdValues ==
    [kind : {"ObjectID", "hex"}, v : 1..MaxBulkKey]
        \cup {[kind |-> "number", v |-> 5], [kind |-> "string", v |-> 0]}
Fields == {"_id", "status"}
\* The payload with the given optional _id and optional status: a function
\* from the names of its fields to their values.
Payload(ids, sts) ==
    [f \in {g \in Fields : (g = "_id" /\ ids # {}) \/ (g = "status" /\ sts # {})} |->
        IF f = "_id" THEN CHOOSE v \in ids : TRUE ELSE CHOOSE v \in sts : TRUE]
Payloads ==
    {Payload(ids, sts) : ids \in {{}} \cup {{v} : v \in IdValues}, sts \in {{}, {"done"}}}
\* The omits argument: undefined ({}) or an array of distinct field names.
OmitArgs ==
    {{}} \cup {{o} : o \in {a \in SeqUpTo(Fields, Cardinality(Fields)) :
                                 \A i, j \in 1..Len(a) : a[i] = a[j] => i = j}}
\* The arguments of a bulk call: the operation, the list (given is FALSE
\* when the caller passed no list: undefined) and the omits.
NoBulkArgs == [op |-> "none", given |-> FALSE, items |-> <<>>, omits |-> {}]
BulkArgs ==
    [op : {"bulkUpdate"}, given : {TRUE},
     items : SeqUpTo(Payloads, MaxUpdates), omits : OmitArgs]
        \cup [op : {"bulkCreate"}, given : {TRUE},
              items : SeqUpTo([_id : 1..MaxBulkKey, status : {"done"}], MaxUpdates),
              omits : {{}}]
        \cup [op : {"bulkCreate", "bulkUpdate"}, given : {FALSE},
              items : {<<>>}, omits : {{}}]

VARIABLES
    dbObject,   \* DBConnection.dbObject: "null" or "db"
    store,      \* the documents of the collection
    orig,       \* the query the caller wrote down (what a fresh copy holds)
    query,      \* the fields of the query object the caller passes
    pageSize,   \* the pageSize argument
    pc,         \* "idle", "fetch" (about to issue find), "handler" (processPage
                \* running), "execute" (batch.execute() awaited)
    documents,  \* the window the last find returned
    windows,    \* the windows processPage was invoked on, in call order (this run)
    fetches,    \* find commands issued to the store (this run)
    lastFetch,  \* the store's reply to the last find: "none", "ok", "failed"
    ret,        \* how the promise of the running / last traversal settled
    out,        \* the last other operation and how its promise settled
    arg0,       \* the fields the query object had when this run was called
    sameObject, \* this run was given the query object of the previous run
    prev,       \* the previous run: its arg0, windows and ret
    run,        \* runs of the paginator started so far
    issued,     \* the query as the find command in flight was sent with it
    snapshot,   \* the documents of the collection when this run was called
    inserted,   \* the documents another process inserted during this run
    bulkArgs,   \* the arguments the caller has for a bulk operation
    batch,      \* the unordered batch of the last bulk call: {} (none was
                \* initialized) or {the sequence of the operations queued}
    executes,   \* batch.execute() calls of the last bulk call
    report,     \* the aggregate report execute() of the last bulk call resolved with
    fetcher,    \* the last call of processABatchOfDocuments
    other,      \* a second traversal, called while the first is in progress
    legacy      \* the last call of a connect-per-call function

pageVars == <<store, orig, query, pageSize, documents, windows, fetches, lastFetch,
              ret, arg0, sameObject, prev, run, issued, snapshot, inserted>>
bulkVars == <<bulkArgs, batch, executes, report>>
restVars == <<fetcher, other, legacy>>
vars == <<dbObject, pc, out, pageVars, bulkVars, restVars>>

\* ------------------------------------------------------------------ the store
Matches(d, q) ==
    /\ \A s \in q.status : d.status = s
    /\ \A k \in q._id : d._id > k

\* collection.find(query)
find(c, q) == {d \in c : Matches(d, q)}

\* cursor.sort({_id: 1})
RECURSIVE sort(_)
sort(S) ==
    IF S = {} THEN <<>>
    ELSE LET m == CHOOSE d \in S : \A e \in S : d._id <= e._id
         IN  <<m>> \o sort(S \ {m})

\* cursor.limit(n): a limit of 0 is no limit
limit(s, n) == IF n = 0 THEN s ELSE SubSeq(s, 1, Min(n, Len(s)))

\* The windows ws one after the other.
RECURSIVE Flatten(_)
Flatten(ws) == IF ws = <<>> THEN <<>> ELSE Head(ws) \o Flatten(Tail(ws))

\* find(query).sort({_id: 1}).limit(pageSize).toArray()
toArray_skip(c, q, n) ==
    LET all == sort(find(c, arg0))
        k == Len(Flatten(windows))
    IN  limit(IF k >= Len(all) THEN <<>> ELSE SubSeq(all, k + 1, Len(all)), n)
toArray(c, q, n) == limit(sort(find(c, q)), n)

\* ------------------------------------------------------------------ the paginator
\* documents.length < 1: no data left to traverse
IsEmptyPage(docs) == Len(docs) < 1

\* documents.length < pageSize: the last page
IsLastPage_lte(docs, p) == Len(docs) <= p
IsLastPage(docs, p) == Len(docs) < p

\* getNextPage: lastId = documents[documents.length - 1]._id; query._id = {$gt: lastId}
getNextPage_firstId(q, docs) == [q EXCEPT !._id = {docs[1]._id}]
getNextPage_replaceQuery(q, docs) == [status |-> {}, _id |-> {docs[Len(docs)]._id}]
getNextPage_keepBound(q, docs) == q
getNextPage_offByOne(q, docs) == [q EXCEPT !._id = {docs[Len(docs)]._id + 1}]
getNextPage(q, docs) == [q EXCEPT !._id = {docs[Len(docs)]._id}]

\* The query object after processPage resolved on a window: untouched on the
\* last page, advanced by getNextPage on a full page.
QueryAfterPage_always(q, docs, p) == getNextPage(q, docs)
QueryAfterPage(q, docs, p) == IF IsLastPage(docs, p) THEN q ELSE getNextPage(q, docs)

\* DBConnection.initialize(DB_URL): MongoClient.connect resolves or rejects.
initialize ==
    /\ pc = "idle"
    /\ out.driver # "pending"
    /\ \/ /\ dbObject' = "db"
          /\ out' = Returned("initialize", "n/a", "ok",
                             Fulfilled(Envelope(TRUE, Absent, Absent)))
       \/ /\ dbObject' = "null"
          /\ out' = Returned("initialize", "n/a", "failed",
                             Fulfilled(Envelope(FALSE, Absent, DriverMessage)))
    /\ UNCHANGED <<pc, pageVars, bulkVars, restVars>>

\* The caller invokes workOnItPageByPage(collectionName, query, projection,
\* pageSize, processPage, processPageArgs): the first time with the query it
\* built, later with the same arguments, the query being either the same
\* object or a fresh copy of what the caller wrote down.
CallWorkOnItPageByPage ==
    /\ pc = "idle"
    /\ run < MaxRuns
    /\ \/ /\ run = 0
          /\ \E p \in 1..MaxPage : pageSize' = p
          /\ query' = orig
          /\ sameObject' = FALSE
          /\ prev' = NoRun
       \/ /\ run > 0
          /\ \E same \in BOOLEAN :
                /\ sameObject' = same
                /\ query' = IF same THEN query ELSE orig
          /\ prev' = [arg0 |-> arg0, windows |-> windows, ret |-> ret]
          /\ UNCHANGED pageSize
    /\ arg0' = query'
    /\ run' = run + 1
    /\ pc' = "fetch"
    /\ documents' = <<>>
    /\ windows' = <<>>
    /\ fetches' = 0
    /\ lastFetch' = "none"
    /\ ret' = Pending
    /\ issued' = query'
    /\ snapshot' = store
    /\ inserted' = {}
    /\ UNCHANGED <<dbObject, store, orig, out, bulkVars, restVars>>

\* DBConnection.dbObject.collection(...) on a null handle throws a TypeError
\* inside the async function: its promise rejects, no command is issued.
findOnNullHandle ==
    /\ pc = "fetch"
    /\ dbObject = "null"
    /\ ret' = Rejected(TypeErrorMessage)
    /\ pc' = "idle"
    /\ UNCHANGED <<dbObject, store, orig, query, pageSize, documents, windows,
                   fetches, lastFetch, out, arg0, sameObject, prev, run,
                   issued, snapshot, inserted, bulkVars, restVars>>

\* await ...toArray() rejects: the async function has no try/catch, so its
\* promise rejects with the driver's error.
findRejected_retry ==
    /\ pc = "fetch"
    /\ dbObject = "db"
    /\ fetches <= MaxKey
    /\ fetches' = fetches + 1
    /\ lastFetch' = "failed"
    /\ UNCHANGED <<dbObject, store, orig, query, pageSize, pc, documents, windows,
                   ret, out, arg0, sameObject, prev, run,
                   issued, snapshot, inserted, bulkVars, restVars>>
findRejected ==
    /\ pc = "fetch"
    /\ dbObject = "db"
    /\ fetches' = fetches + 1
    /\ lastFetch' = "failed"
    /\ ret' = Rejected(DriverMessage)
    /\ pc' = "idle"
    /\ UNCHANGED <<dbObject, store, orig, query, pageSize, documents, windows,
                   out, arg0, sameObject, prev, run,
                   issued, snapshot, inserted, bulkVars, restVars>>

\* await ...toArray() resolves with the window; an empty window ends the
\* traversal with the terminal envelope, any other is handed to processPage.
findResolved_lateRead ==
    /\ pc = "fetch"
    /\ dbObject = "db"
    /\ fetches' = fetches + 1
    /\ lastFetch' = "ok"
    /\ documents' = toArray(store, query, pageSize)
    /\ IF IsEmptyPage(documents')
       THEN /\ ret' = Fulfilled(Envelope(FALSE, Absent, "no documents found"))
            /\ pc' = "idle"
            /\ UNCHANGED windows
       ELSE /\ windows' = Append(windows, documents')
            /\ pc' = "handler"
            /\ UNCHANGED ret
    /\ UNCHANGED <<dbObject, store, orig, query, pageSize, out, arg0, sameObject,
                   prev, run, issued, snapshot, inserted, bulkVars, restVars>>
findResolved ==
    /\ pc = "fetch"
    /\ dbObject = "db"
    /\ fetches' = fetches + 1
    /\ lastFetch' = "ok"
    /\ documents' = toArray(store, issued, pageSize)
    /\ IF IsEmptyPage(documents')
       THEN /\ ret' = Fulfilled(Envelope(FALSE, Absent, "no documents found"))
            /\ pc' = "idle"
            /\ UNCHANGED windows
       ELSE /\ windows' = Append(windows, documents')
            /\ pc' = "handler"
            /\ UNCHANGED ret
    /\ UNCHANGED <<dbObject, store, orig, query, pageSize, out, arg0, sameObject,
                   prev, run,
                   issued, snapshot, inserted, bulkVars, restVars>>

\* processPage(documents, ...processPageArgs) resolves: on the last page its
\* value is the result, on a full page getNextPage advances the query and
\* the method calls itself.
processPageResolved ==
    /\ pc = "handler"
    /\ query' = QueryAfterPage(query, documents, pageSize)
    /\ issued' = query'
    /\ IF IsLastPage(documents, pageSize)
       THEN /\ ret' = Fulfilled(HandlerValue)
            /\ pc' = "idle"
       ELSE /\ pc' = "fetch"
            /\ UNCHANGED ret
    /\ UNCHANGED <<dbObject, store, orig, pageSize, documents, windows, fetches,
                   lastFetch, out, arg0, sameObject, prev, run, snapshot, inserted,
                   bulkVars, restVars>>

\* processPage rejects: the rejection is the result (last page) or skips the
\* .then(getNextPage) (full page); either way the promise rejects.
processPageRejected_advance ==
    /\ pc = "handler"
    /\ query' = getNextPage(query, documents)
    /\ ret' = Rejected(HandlerMessage)
    /\ pc' = "idle"
    /\ UNCHANGED <<dbObject, store, orig, pageSize, documents, windows,
                   fetches, lastFetch, out, arg0, sameObject, prev, run,
                   issued, snapshot, inserted, bulkVars, restVars>>
processPageRejected ==
    /\ pc = "handler"
    /\ ret' = Rejected(HandlerMessage)
    /\ pc' = "idle"
    /\ UNCHANGED <<dbObject, store, orig, query, pageSize, documents, windows,
                   fetches, lastFetch, out, arg0, sameObject, prev, run,
                   issued, snapshot, inserted, bulkVars, restVars>>

\* Another process inserts a document while the caller's first traversal is
\* in progress: a find is about to be evaluated by the store (pc = "fetch")
\* or processPage is running on a window (pc = "handler").  The record of
\* the insert keeps the document, the number of windows delivered so far,
\* the last key of the latest of them (none delivered: the bound the query
\* was passed with) and whether processPage was running on a window shorter
\* than pageSize.
insertByAnotherProcess ==
    /\ pc \in {"fetch", "handler"}
    /\ run = 1
    /\ Cardinality(inserted) < MaxInserts
    /\ \E d \in Documents :
          /\ \A e \in store : e._id # d._id
          /\ store' = store \cup {d}
          /\ inserted' = inserted \cup
                {[doc |-> d,
                  delivered |-> Len(windows),
                  lastKey |-> IF windows = <<>> THEN arg0._id
                              ELSE {windows[Len(windows)][Len(windows[Len(windows)])]._id},
                  onShortWindow |-> pc = "handler" /\ IsLastPage(documents, pageSize)]}
    /\ UNCHANGED <<dbObject, pc, out, orig, query, pageSize, documents, windows, fetches,
                   lastFetch, ret, arg0, sameObject, prev, run, issued, snapshot,
                   bulkVars, restVars>>

\* The processPage the caller passes to its first traversal, while it runs
\* on a window, deletes a document of the window or updates the status of
\* one, any number of times (the processPage of a later traversal only reads).
handlerWrites ==
    /\ pc = "handler"
    /\ run = 1
    /\ \E d \in store :
          /\ \E i \in 1..Len(documents) : documents[i]._id = d._id
          /\ \/ store' = store \ {d}
             \/ \E st \in Statuses \ {d.status} :
                   store' = (store \ {d}) \cup {[d EXCEPT !.status = st]}
    /\ UNCHANGED <<dbObject, pc, out, orig, query, pageSize, documents, windows, fetches,
                   lastFetch, ret, arg0, sameObject, prev, run, issued, snapshot,
                   inserted, bulkVars, restVars>>

\* ------------------------------------------------------------------ a second traversal
\* A second call of workOnItPageByPage that runs while the first is in
\* progress: its position, its pageSize argument, the fields the query
\* object had when it was called, the query its find in flight was sent
\* with, its window, the windows its processPage was invoked on, its find
\* commands and how its promise settled.  The two calls share the query
\* object (the variable query); documents and pageSize are per call.
Traversal(at, p, q, sent, docs, ws, n, r) ==
    [pc |-> at, pageSize |-> p, arg0 |-> q, issued |-> sent, documents |-> docs,
     windows |-> ws, fetches |-> n, ret |-> r]
NoTraversal ==
    Traversal("none", 1, [status |-> {}, _id |-> {}], [status |-> {}, _id |-> {}],
              <<>>, <<>>, 0, Pending)

\* The caller invokes workOnItPageByPage a second time, with the query
\* object and the pageSize of the first call, while the first call is in
\* progress.
CallOther ==
    /\ run = 1
    /\ pc \in {"fetch", "handler"}
    /\ other.pc = "none"
    /\ other' = Traversal("fetch", pageSize, query, query, <<>>, <<>>, 0, Pending)
    /\ UNCHANGED <<dbObject, pc, out, pageVars, bulkVars, fetcher, legacy>>

otherFindOnNullHandle ==
    /\ other.pc = "fetch"
    /\ dbObject = "null"
    /\ other' = [other EXCEPT !.pc = "idle", !.ret = Rejected(TypeErrorMessage)]
    /\ UNCHANGED <<dbObject, pc, out, pageVars, bulkVars, fetcher, legacy>>

otherFindRejected ==
    /\ other.pc = "fetch"
    /\ dbObject = "db"
    /\ other' = [other EXCEPT !.pc = "idle", !.fetches = @ + 1,
                              !.ret = Rejected(DriverMessage)]
    /\ UNCHANGED <<dbObject, pc, out, pageVars, bulkVars, fetcher, legacy>>

otherFindResolved ==
    /\ other.pc = "fetch"
    /\ dbObject = "db"
    /\ LET docs == toArray(store, other.issued, other.pageSize)
       IN  IF IsEmptyPage(docs)
           THEN other' = [other EXCEPT
                            !.pc = "idle", !.fetches = @ + 1, !.documents = docs,
                            !.ret = Fulfilled(Envelope(FALSE, Absent, "no documents found"))]
           ELSE other' = [other EXCEPT
                            !.pc = "handler", !.fetches = @ + 1, !.documents = docs,
                            !.windows = Append(@, docs)]
    /\ UNCHANGED <<dbObject, pc, out, pageVars, bulkVars, fetcher, legacy>>

\* processPage of the second call resolves: getNextPage writes into the
\* shared query object and the find of the next page is sent with it.
otherProcessPageResolved ==
    /\ other.pc = "handler"
    /\ query' = QueryAfterPage(query, other.documents, other.pageSize)
    /\ IF IsLastPage(other.documents, other.pageSize)
       THEN other' = [other EXCEPT !.pc = "idle", !.ret = Fulfilled(HandlerValue)]
       ELSE other' = [other EXCEPT !.pc = "fetch", !.issued = query']
    /\ UNCHANGED <<dbObject, pc, out, store, orig, pageSize, documents, windows, fetches,
                   lastFetch, ret, arg0, sameObject, prev, run, issued, snapshot,
                   inserted, bulkVars, fetcher, legacy>>

otherProcessPageRejected ==
    /\ other.pc = "handler"
    /\ other' = [other EXCEPT !.pc = "idle", !.ret = Rejected(HandlerMessage)]
    /\ UNCHANGED <<dbObject, pc, out, pageVars, bulkVars, fetcher, legacy>>

\* ------------------------------------------------------------------ the batch fetcher
\* The record of a call of processABatchOfDocuments: the batchSize argument,
\* the fields the query object had when it was called, the find commands
\* issued, the window fetched, the windows processBatch was invoked on, how
\* processBatch ended ("none": not invoked or still running, "resolved",
\* "rejected": the promise it returned rejected, "threw": it threw before
\* returning one) and how the call's promise settled.
Fetch(b, q, n, docs, calls, h, r) ==
    [batchSize |-> b, arg0 |-> q, fetches |-> n, documents |-> docs,
     calls |-> calls, handler |-> h, ret |-> r]
NoFetch == Fetch(0, [status |-> {}, _id |-> {}], 0, <<>>, <<>>, "none", Pending)

\* The caller invokes processABatchOfDocuments(collectionName, query,
\* batchSize, processBatch, processBatchArgs) with its query object.
CallProcessABatchOfDocuments ==
    /\ pc = "idle"
    /\ out.driver # "pending"
    /\ \E b \in 1..MaxPage :
          fetcher' = Fetch(b, query, 0, <<>>, <<>>, "none", Pending)
    /\ pc' = "batch fetch"
    /\ UNCHANGED <<dbObject, out, pageVars, bulkVars, other, legacy>>

\* DBConnection.dbObject.collection(...) on a null handle throws inside the
\* try: the catch returns the envelope of the TypeError.
batchFindOnNullHandle_nothing ==
    /\ pc = "batch fetch"
    /\ dbObject = "null"
    /\ fetcher' = [fetcher EXCEPT !.ret = Fulfilled(False)]
    /\ pc' = "idle"
    /\ UNCHANGED <<dbObject, out, pageVars, bulkVars, other, legacy>>
batchFindOnNullHandle ==
    /\ pc = "batch fetch"
    /\ dbObject = "null"
    /\ fetcher' = [fetcher EXCEPT
                      !.ret = Fulfilled(Envelope(FALSE, Absent, TypeErrorMessage))]
    /\ pc' = "idle"
    /\ UNCHANGED <<dbObject, out, pageVars, bulkVars, other, legacy>>

\* await ...toArray() rejects inside the try: the catch returns the envelope
\* of the driver's error.
batchFindRejected ==
    /\ pc = "batch fetch"
    /\ dbObject = "db"
    /\ fetcher' = [fetcher EXCEPT
                      !.fetches = @ + 1,
                      !.ret = Fulfilled(Envelope(FALSE, Absent, DriverMessage))]
    /\ pc' = "idle"
    /\ UNCHANGED <<dbObject, out, pageVars, bulkVars, other, legacy>>

\* await find(query).sort({_id: 1}).limit(batchSize).toArray() resolves: an
\* empty window returns Promise.resolve(false), any other is handed to
\* processBatch.
batchFindResolved ==
    /\ pc = "batch fetch"
    /\ dbObject = "db"
    /\ LET docs == toArray(store, query, fetcher.batchSize)
       IN  IF IsEmptyPage(docs)
           THEN /\ fetcher' = [fetcher EXCEPT !.fetches = @ + 1, !.documents = docs,
                                              !.ret = Fulfilled(False)]
                /\ pc' = "idle"
           ELSE /\ fetcher' = [fetcher EXCEPT !.fetches = @ + 1, !.documents = docs,
                                              !.calls = Append(@, docs)]
                /\ pc' = "batch handler"
    /\ UNCHANGED <<dbObject, out, pageVars, bulkVars, other, legacy>>

\* return processBatch(documents, ...processBatchArgs): the promise
\* processBatch returned is the result, whether it resolves ...
processBatchResolved_advance ==
    /\ pc = "batch handler"
    /\ fetcher' = [fetcher EXCEPT !.handler = "resolved", !.ret = Fulfilled(HandlerValue)]
    /\ query' = getNextPage(query, fetcher.documents)
    /\ pc' = "idle"
    /\ UNCHANGED <<dbObject, out, store, orig, pageSize, documents, windows, fetches,
                   lastFetch, ret, arg0, sameObject, prev, run, issued, snapshot,
                   inserted, bulkVars, other, legacy>>
processBatchResolved ==
    /\ pc = "batch handler"
    /\ fetcher' = [fetcher EXCEPT !.handler = "resolved", !.ret = Fulfilled(HandlerValue)]
    /\ pc' = "idle"
    /\ UNCHANGED <<dbObject, out, pageVars, bulkVars, other, legacy>>

\* ... or rejects (it is returned, not awaited: the catch does not see it).
processBatchRejected ==
    /\ pc = "batch handler"
    /\ fetcher' = [fetcher EXCEPT !.handler = "rejected", !.ret = Rejected(HandlerMessage)]
    /\ pc' = "idle"
    /\ UNCHANGED <<dbObject, out, pageVars, bulkVars, other, legacy>>

\* processBatch throws before it returns a promise: the throw is inside the
\* try, the catch returns the envelope of the handler's error.
processBatchThrows ==
    /\ pc = "batch handler"
    /\ fetcher' = [fetcher EXCEPT
                      !.handler = "threw",
                      !.ret = Fulfilled(Envelope(FALSE, Absent, HandlerMessage))]
    /\ pc' = "idle"
    /\ UNCHANGED <<dbObject, out, pageVars, bulkVars, other, legacy>>

\* ------------------------------------------------------------------ connect per call
\* The functions of the module that connect on every call: each opens a
\* connection with MongoClient.connect, runs its command and closes the
\* connection in .finally(db.close.bind(db)) and in its catch.
LegacyOps ==
    {"insertIntoDb", "updateDocument", "upsertDocument", "findOneDocumentBasedOnQuery",
     "findDocumentsBasedOnQuery", "countDocumentsByQuery", "insertOne", "dropCollection",
     "findDistinctDocuments"}
\* What the functions resolve with: the driver's result, or undefined.
DriverResult == [type |-> "driver result", status |-> TRUE, resp |-> "result", text |-> Absent]
UndefinedValue == [type |-> "undefined", status |-> FALSE, resp |-> Undefined, text |-> Absent]

\* The record of a call: the function, its argument ("empty": insertIntoDb
\* given no documents, insertOne given no document), its position ("idle",
\* "connect", "listCollections", "command"), the connection it opened
\* ("none", "open", "closed"), the db.close() calls it made, how its promise
\* settled, the calls made so far and the connections earlier calls left
\* open.
LegacyCall(op, arg, at, conn, closes, r, calls, leaked) ==
    [op |-> op, arg |-> arg, pc |-> at, conn |-> conn, closes |-> closes, ret |-> r,
     calls |-> calls, leaked |-> leaked]
NoLegacyCall == LegacyCall("none", "n/a", "idle", "none", 0, Pending, 0, 0)

\* if (documents.length < 1) return Promise.resolve();
\* if (!document) return Promise.resolve();
ReturnsBeforeConnect(op, arg) == op \in {"insertIntoDb", "insertOne"} /\ arg = "empty"

\* A call of one of the functions, up to MongoClient.connect(...).
CallLegacy ==
    /\ legacy.pc = "idle"
    /\ legacy.calls < MaxCalls
    /\ \E op \in LegacyOps, arg \in {"empty", "nonempty", "n/a"} :
          /\ arg = "n/a" <=> op \notin {"insertIntoDb", "insertOne"}
          /\ LET leaked == legacy.leaked + (IF legacy.conn = "open" THEN 1 ELSE 0)
             IN  legacy' =
                   IF ReturnsBeforeConnect(op, arg)
                   THEN LegacyCall(op, arg, "idle", "none", 0, Fulfilled(UndefinedValue),
                                   legacy.calls + 1, leaked)
                   ELSE LegacyCall(op, arg, "connect", "none", 0, Pending,
                                   legacy.calls + 1, leaked)
    /\ UNCHANGED <<dbObject, pc, out, pageVars, bulkVars, fetcher, other>>

\* MongoClient.connect rejects: dbHandleForShutDowns is unset, the catch
\* rethrows.
connectRejected ==
    /\ legacy.pc = "connect"
    /\ legacy' = [legacy EXCEPT !.pc = "idle", !.ret = Rejected(DriverMessage)]
    /\ UNCHANGED <<dbObject, pc, out, pageVars, bulkVars, fetcher, other>>

\* MongoClient.connect resolves with db: dropCollection lists the
\* collections, the others run their command.
connectResolved ==
    /\ legacy.pc = "connect"
    /\ legacy' = [legacy EXCEPT
                     !.conn = "open",
                     !.pc = IF legacy.op = "dropCollection" THEN "listCollections"
                            ELSE "command"]
    /\ UNCHANGED <<dbObject, pc, out, pageVars, bulkVars, fetcher, other>>

\* dropCollection: db.listCollections().toArray() rejects, the catch closes
\* the connection and rethrows.
listCollectionsRejected ==
    /\ legacy.pc = "listCollections"
    /\ legacy' = [legacy EXCEPT !.pc = "idle", !.conn = "closed", !.closes = @ + 1,
                                !.ret = Rejected(DriverMessage)]
    /\ UNCHANGED <<dbObject, pc, out, pageVars, bulkVars, fetcher, other>>

\* dropCollection: the names are listed.  A collection of that name is
\* dropped (.finally closes); when there is none the function returns
\* Promise.resolve(false).
listCollectionsResolved ==
    /\ legacy.pc = "listCollections"
    /\ \/ legacy' = [legacy EXCEPT !.pc = "command"]
       \/ legacy' = [legacy EXCEPT !.pc = "idle", !.ret = Fulfilled(False)]
    /\ UNCHANGED <<dbObject, pc, out, pageVars, bulkVars, fetcher, other>>

\* The command resolves: .finally(db.close.bind(db)) closes the connection
\* before the promise is fulfilled.
legacyCommandResolved ==
    /\ legacy.pc = "command"
    /\ legacy' = [legacy EXCEPT !.pc = "idle", !.conn = "closed", !.closes = @ + 1,
                                !.ret = Fulfilled(DriverResult)]
    /\ UNCHANGED <<dbObject, pc, out, pageVars, bulkVars, fetcher, other>>

\* The command rejects: .finally closes the connection, the catch calls
\* close() a second time and rethrows.
legacyCommandRejected ==
    /\ legacy.pc = "command"
    /\ legacy' = [legacy EXCEPT !.pc = "idle", !.conn = "closed", !.closes = @ + 2,
                                !.ret = Rejected(DriverMessage)]
    /\ UNCHANGED <<dbObject, pc, out, pageVars, bulkVars, fetcher, other>>

\* ------------------------------------------------------------------ the bulk batch
\* omits.toString(): the elements of the array joined by ","
RECURSIVE toString(_)
toString(a) ==
    IF a = <<>> THEN ""
    ELSE IF Len(a) = 1 THEN a[1] ELSE a[1] \o "," \o toString(Tail(a))

\* _.omit(object, path): a copy of object without the property the path
\* names; a path with no "." and no "[" names the property of that very name.
omit(object, path) == [f \in DOMAIN object \ {path} |-> object[f]]

\* (omits) ? update = _.omit(updates[i], omits.toString()) : update = updates[i]
\* (an array, even an empty one, is truthy)
UpdateOf(u, omits) ==
    IF omits # {} THEN omit(u, toString(CHOOSE o \in omits : TRUE)) ELSE u

\* update._id: the value, or undefined ({}) when update has no such property
IdOf(update) == IF "_id" \in DOMAIN update THEN {update["_id"]} ELSE {}

\* new ObjectID(id) throws on a string that is neither 12 bytes nor 24 hex
\* characters
ObjectIDThrows(id) == \E v \in id : v.kind = "string"
\* new ObjectID(id): for undefined and for a number a newly generated id
\* (named here by the position i of the update that asked for it), for an
\* ObjectID or its 24 hex characters the ObjectID of that value.
ObjectID(id, i) ==
    IF id = {} \/ \E v \in id : v.kind = "number"
    THEN [kind |-> "ObjectID", v |-> 0 - i]
    ELSE [kind |-> "ObjectID", v |-> (CHOOSE v \in id : TRUE).v]

\* batch.find({_id: new ObjectID(update._id)}).updateOne({$set: update})
UpdateOp(u, omits, i) ==
    LET update == UpdateOf(u, omits)
    IN  [kind |-> "updateOne", filter |-> {ObjectID(IdOf(update), i)}, set |-> update]

\* batch.insert(documents[i])
InsertOp(d) == [kind |-> "insert", filter |-> {}, set |-> d]

\* The updates on which new ObjectID throws.
ThrowingUpdates(updates, omits) ==
    {i \in 1..Len(updates) : ObjectIDThrows(IdOf(UpdateOf(updates[i], omits)))}

\* !documents || documents.length === 0 (and the same test on updates)
NoDocuments_undefinedOnly(b) == ~b.given
NoDocuments(b) == ~b.given \/ Len(b.items) = 0

\* DBConnection.bulkCreate(collectionName, documents), up to the await of
\* batch.execute(): an empty list returns at once, a null handle throws
\* before the try, otherwise every document is queued and execute is called.
bulkCreate ==
    /\ pc = "idle"
    /\ out.driver # "pending"
    /\ bulkArgs.op = "bulkCreate"
    /\ LET docs == bulkArgs.items
       IN  IF NoDocuments(bulkArgs)
           THEN /\ out' = Returned("bulkCreate", "empty", "none",
                                   Fulfilled(Envelope(TRUE, Absent, "No documents to insert")))
                /\ batch' = {}
                /\ executes' = 0
                /\ UNCHANGED pc
           ELSE IF dbObject = "null"
           THEN /\ out' = Returned("bulkCreate", "nonempty", "none", Rejected(TypeErrorMessage))
                /\ batch' = {}
                /\ executes' = 0
                /\ UNCHANGED pc
           ELSE /\ batch' = {[i \in 1..Len(docs) |-> InsertOp(docs[i])]}
                /\ executes' = 1
                /\ out' = Returned("bulkCreate", "nonempty", "pending", Pending)
                /\ pc' = "execute"
    /\ report' = NoReport
    /\ UNCHANGED <<dbObject, pageVars, bulkArgs, restVars>>

\* DBConnection.bulkUpdate(collectionName, updates, omits), up to the await
\* of batch.execute(): as bulkCreate, and new ObjectID may throw in the
\* loop, before the try, with the earlier updates queued.
bulkUpdate ==
    /\ pc = "idle"
    /\ out.driver # "pending"
    /\ bulkArgs.op = "bulkUpdate"
    /\ LET updates == bulkArgs.items
           omits == bulkArgs.omits
           throwing == ThrowingUpdates(updates, omits)
       IN  IF NoDocuments(bulkArgs)
           THEN /\ out' = Returned("bulkUpdate", "empty", "none",
                                   Fulfilled(Envelope(TRUE, Absent, "No updates found")))
                /\ batch' = {}
                /\ executes' = 0
                /\ UNCHANGED pc
           ELSE IF dbObject = "null"
           THEN /\ out' = Returned("bulkUpdate", "nonempty", "none", Rejected(TypeErrorMessage))
                /\ batch' = {}
                /\ executes' = 0
                /\ UNCHANGED pc
           ELSE IF throwing # {}
           THEN LET first == CHOOSE i \in throwing : \A j \in throwing : i <= j
                IN  /\ batch' = {[i \in 1..(first - 1) |-> UpdateOp(updates[i], omits, i)]}
                    /\ executes' = 0
                    /\ out' = Returned("bulkUpdate", "nonempty", "none", Rejected(ObjectIDMessage))
                    /\ UNCHANGED pc
           ELSE /\ batch' = {[i \in 1..Len(updates) |-> UpdateOp(updates[i], omits, i)]}
                /\ executes' = 1
                /\ out' = Returned("bulkUpdate", "nonempty", "pending", Pending)
                /\ pc' = "execute"
    /\ report' = NoReport
    /\ UNCHANGED <<dbObject, pageVars, bulkArgs, restVars>>

\* DBConnection.bulkUpdateByQuery(collectionName, updates, query): one
\* update operation is queued for the whole query, then execute is awaited.
bulkUpdateByQuery ==
    /\ pc = "idle"
    /\ out.driver # "pending"
    /\ IF dbObject = "null"
       THEN /\ out' = Returned("bulkUpdateByQuery", "n/a", "none", Rejected(TypeErrorMessage))
            /\ batch' = {}
            /\ executes' = 0
            /\ UNCHANGED pc
       ELSE /\ batch' = {<<[kind |-> "update", filter |-> {orig}, set |-> Payload({}, {"done"})]>>}
            /\ executes' = 1
            /\ out' = Returned("bulkUpdateByQuery", "n/a", "pending", Pending)
            /\ pc' = "execute"
    /\ report' = NoReport
    /\ UNCHANGED <<dbObject, pageVars, bulkArgs, restVars>>

\* try { const resp = await batch.execute(); return {status: true, resp}; }
executeResolved_reinterpret ==
    /\ pc = "execute"
    /\ \E r \in Reports :
          /\ report' = r
          /\ out' = [out EXCEPT
                        !.driver = "ok",
                        !.ret = IF r = "BulkWriteResult"
                                THEN Fulfilled(Envelope(TRUE, r, Absent))
                                ELSE Fulfilled(Envelope(FALSE, Absent, r))]
    /\ pc' = "idle"
    /\ UNCHANGED <<dbObject, pageVars, bulkArgs, batch, executes, restVars>>
executeResolved ==
    /\ pc = "execute"
    /\ \E r \in Reports :
          /\ report' = r
          /\ out' = [out EXCEPT !.driver = "ok",
                                !.ret = Fulfilled(Envelope(TRUE, r, Absent))]
    /\ pc' = "idle"
    /\ UNCHANGED <<dbObject, pageVars, bulkArgs, batch, executes, restVars>>

\* catch (err) { return {status: false, text: err.message}; }
executeRejected ==
    /\ pc = "execute"
    /\ out' = [out EXCEPT !.driver = "failed",
                          !.ret = Fulfilled(Envelope(FALSE, Absent, DriverMessage))]
    /\ pc' = "idle"
    /\ UNCHANGED <<dbObject, pageVars, bulkVars, restVars>>

\* ------------------------------------------------------------------ the other operations
\* try { const resp = await <command>; return {status: true, resp}; }
\* catch (err) { return {status: false, text: err.message}; }
\* with DBConnection.dbObject.collection(...) inside the try: on a null
\* handle the TypeError is caught, otherwise the command resolves or rejects.
AwaitInTry(op, arg) ==
    \/ /\ dbObject = "null"
       /\ out' = Returned(op, arg, "none", Fulfilled(Envelope(FALSE, Absent, TypeErrorMessage)))
    \/ /\ dbObject = "db"
       /\ out' = Returned(op, arg, "ok", Fulfilled(Envelope(TRUE, "result", Absent)))
    \/ /\ dbObject = "db"
       /\ out' = Returned(op, arg, "failed", Fulfilled(Envelope(FALSE, Absent, DriverMessage)))

\* try { const resp = <command>; return {status: true, resp}; } catch ...
\* with no await: resp is the command's promise, which settles after the
\* operation has returned.
NoAwaitInTry(op, arg) ==
    \/ /\ dbObject = "null"
       /\ out' = Returned(op, arg, "none", Fulfilled(Envelope(FALSE, Absent, TypeErrorMessage)))
    \/ /\ dbObject = "db"
       /\ out' = Returned(op, arg, "pending", Fulfilled(Envelope(TRUE, "promise", Absent)))

\* DBConnection.insertIntoDb(collectionName, documents)
insertIntoDb ==
    /\ pc = "idle"
    /\ out.driver # "pending"
    /\ \/ out' = Returned("insertIntoDb", "empty", "none",
                          Fulfilled(Envelope(TRUE, Absent, "No documents found to insert")))
       \/ AwaitInTry("insertIntoDb", "nonempty")
    /\ UNCHANGED <<dbObject, pc, pageVars, bulkVars, restVars>>

\* DBConnection.updateDocument(collectionName, mutableEntity, timeStamp)
updateDocument ==
    /\ pc = "idle"
    /\ out.driver # "pending"
    /\ AwaitInTry("updateDocument", "n/a")
    /\ UNCHANGED <<dbObject, pc, pageVars, bulkVars, restVars>>

\* DBConnection.upsertDocument(collectionName, mutableEntity, upsert, query)
upsertDocument ==
    /\ pc = "idle"
    /\ out.driver # "pending"
    /\ AwaitInTry("upsertDocument", "n/a")
    /\ UNCHANGED <<dbObject, pc, pageVars, bulkVars, restVars>>

\* DBConnection.findOneDocumentBasedOnQuery(collectionName, query, sort):
\* await ...toArray()[0] indexes the promise toArray() returned, so what is
\* awaited is undefined and the command's promise is dropped.
findOneDocumentBasedOnQuery ==
    /\ pc = "idle"
    /\ out.driver # "pending"
    /\ \/ /\ dbObject = "null"
          /\ out' = Returned("findOneDocumentBasedOnQuery", "n/a", "none",
                             Fulfilled(Envelope(FALSE, Absent, TypeErrorMessage)))
       \/ /\ dbObject = "db"
          /\ out' = Returned("findOneDocumentBasedOnQuery", "n/a", "pending",
                             Fulfilled(Envelope(TRUE, Undefined, Absent)))
    /\ UNCHANGED <<dbObject, pc, pageVars, bulkVars, restVars>>

\* DBConnection.findDocumentsBasedOnQuery(collectionName, query, limit, projection)
findDocumentsBasedOnQuery ==
    /\ pc = "idle"
    /\ out.driver # "pending"
    /\ AwaitInTry("findDocumentsBasedOnQuery", "n/a")
    /\ UNCHANGED <<dbObject, pc, pageVars, bulkVars, restVars>>

\* DBConnection.countDocumentsByQuery(collectionName, query)
countDocumentsByQuery ==
    /\ pc = "idle"
    /\ out.driver # "pending"
    /\ AwaitInTry("countDocumentsByQuery", "n/a")
    /\ UNCHANGED <<dbObject, pc, pageVars, bulkVars, restVars>>

\* DBConnection.insertOne(collectionName, document): insertOne(...) is not
\* awaited.
insertOne ==
    /\ pc = "idle"
    /\ out.driver # "pending"
    /\ \/ out' = Returned("insertOne", "empty", "none",
                          Fulfilled(Envelope(FALSE, Absent, "No documents found to insert")))
       \/ NoAwaitInTry("insertOne", "nonempty")
    /\ UNCHANGED <<dbObject, pc, pageVars, bulkVars, restVars>>

\* DBConnection.dropCollection(name): drop() is not awaited.
dropCollection ==
    /\ pc = "idle"
    /\ out.driver # "pending"
    /\ NoAwaitInTry("dropCollection", "n/a")
    /\ UNCHANGED <<dbObject, pc, pageVars, bulkVars, restVars>>

\* DBConnection.findDistinctDocuments(collectionName, field): distinct(...)
\* is not awaited.
findDistinctDocuments ==
    /\ pc = "idle"
    /\ out.driver # "pending"
    /\ NoAwaitInTry("findDistinctDocuments", "n/a")
    /\ UNCHANGED <<dbObject, pc, pageVars, bulkVars, restVars>>

\* The store settles the promise of a command whose operation has already
\* returned.
commandSettles ==
    /\ pc = "idle"
    /\ out.driver = "pending"
    /\ \E answer \in {"ok", "failed"} : out' = [out EXCEPT !.driver = answer]
    /\ UNCHANGED <<dbObject, pc, pageVars, bulkVars, restVars>>

\* The state before the first call, for a collection c, a query q and bulk
\* arguments b.
Start(c, q, b) ==
    /\ dbObject = "null"
    /\ store = c
    /\ orig = q
    /\ query = q
    /\ pageSize = 1
    /\ pc = "idle"
    /\ documents = <<>>
    /\ windows = <<>>
    /\ fetches = 0
    /\ lastFetch = "none"
    /\ ret = Pending
    /\ out = Returned("none", "n/a", "none", Pending)
    /\ arg0 = q
    /\ sameObject = FALSE
    /\ prev = NoRun
    /\ run = 0
    /\ issued = q
    /\ snapshot = c
    /\ inserted = {}
    /\ bulkArgs = b
    /\ batch = {}
    /\ executes = 0
    /\ report = NoReport
    /\ fetcher = NoFetch
    /\ other = NoTraversal
    /\ legacy = NoLegacyCall

Init == \E c \in Collections, q \in Queries : Start(c, q, NoBulkArgs)

Next ==
    \/ initialize
    \/ CallWorkOnItPageByPage
    \/ findOnNullHandle
    \/ findRejected
    \/ findResolved
    \/ processPageResolved
    \/ processPageRejected

Spec == Init /\ [][Next]_vars

\* bulkCreate and bulkUpdate on every argument list, on an initialized or an
\* uninitialized handle.
InitBulk == \E b \in BulkArgs : Start({}, [status |-> {}, _id |-> {}], b)

NextBulk ==
    \/ initialize
    \/ bulkCreate
    \/ bulkUpdate
    \/ executeResolved
    \/ executeRejected

SpecBulk == InitBulk /\ [][NextBulk]_vars

\* Every operation of DBConnection: the collection holds the documents
\* 1..n, all matching the caller's query, and the bulk lists are empty or
\* hold one element that names document 1.
EnvCollections == {[_id : 1..n, status : {"done"}] : n \in 0..MaxKey}
EnvBulkArgs ==
    {b \in BulkArgs :
        /\ b.given
        /\ b.omits = {}
        /\ Len(b.items) <= 1
        /\ \A i \in 1..Len(b.items) :
              /\ DOMAIN b.items[i] = Fields
              /\ b.items[i]["_id"] =
                    (IF b.op = "bulkCreate" THEN 1 ELSE [kind |-> "ObjectID", v |-> 1])}
InitEnv ==
    \E c \in EnvCollections, b \in EnvBulkArgs : Start(c, [status |-> {}, _id |-> {}], b)

NextEnv ==
    \/ Next
    \/ insertIntoDb
    \/ updateDocument
    \/ upsertDocument
    \/ findOneDocumentBasedOnQuery
    \/ findDocumentsBasedOnQuery
    \/ countDocumentsByQuery
    \/ bulkCreate
    \/ bulkUpdate
    \/ bulkUpdateByQuery
    \/ executeResolved
    \/ executeRejected
    \/ insertOne
    \/ dropCollection
    \/ findDistinctDocuments
    \/ commandSettles

SpecEnv == InitEnv /\ [][NextEnv]_vars

\* The batch fetcher on every collection, query and batch size, on an
\* initialized or an uninitialized handle.
NextBatch ==
    \/ initialize
    \/ CallProcessABatchOfDocuments
    \/ batchFindOnNullHandle
    \/ batchFindRejected
    \/ batchFindResolved
    \/ processBatchResolved
    \/ processBatchRejected
    \/ processBatchThrows

SpecBatch == Init /\ [][NextBatch]_vars

\* The paginator when the store answers every find and every call of
\* processPage settles, on the collections of EnvCollections.
InitLive == \E c \in EnvCollections, q \in Queries : Start(c, q, NoBulkArgs)
EveryCallSettles ==
    /\ WF_vars(findOnNullHandle \/ findRejected \/ findResolved)
    /\ WF_vars(processPageResolved \/ processPageRejected)
SpecLive == InitLive /\ [][Next]_vars /\ EveryCallSettles

\* The paginator while another process inserts documents: the collection
\* holds documents of status "done" at first and the caller's query has no
\* _id predicate.
InitInsert ==
    \E c \in {x \in Collections : \A d \in x : d.status = "done"},
       q \in {x \in Queries : x._id = {}} :
        Start(c, q, NoBulkArgs)
NextInsert ==
    \/ Next
    \/ insertByAnotherProcess
SpecInsert == InitInsert /\ [][NextInsert]_vars

\* The paginator with a processPage that writes to the documents it is
\* given, on the collections of EnvCollections.
InitWrites == \E c \in EnvCollections, q \in Queries : Start(c, q, NoBulkArgs)
NextWrites ==
    \/ Next
    \/ handlerWrites
SpecWrites == InitWrites /\ [][NextWrites]_vars

\* Two traversals on one query object, the second called while the first is
\* in progress, on the collections of EnvCollections and the queries with
\* no _id predicate.
InitTwo ==
    \E c \in EnvCollections, q \in {x \in Queries : x._id = {}} : Start(c, q, NoBulkArgs)
NextTwo ==
    \/ Next
    \/ CallOther
    \/ otherFindOnNullHandle
    \/ otherFindRejected
    \/ otherFindResolved
    \/ otherProcessPageResolved
    \/ otherProcessPageRejected
SpecTwo == InitTwo /\ [][NextTwo]_vars

\* The connect-per-call functions, called one after the other.
InitLegacy == Start({}, [status |-> {}, _id |-> {}], NoBulkArgs)
NextLegacy ==
    \/ CallLegacy
    \/ connectRejected
    \/ connectResolved
    \/ listCollectionsRejected
    \/ listCollectionsResolved
    \/ legacyCommandResolved
    \/ legacyCommandRejected
SpecLegacy == InitLegacy /\ [][NextLegacy]_vars

\* The operations that use the handle without a try around the use, or
\* with one: the paginator, the batch fetcher and the bulk operations, on a
\* handle that initialize sets and resets.  The collection is empty or
\* holds one document; the bulk lists are missing, empty or hold one element.
HandleBulkArgs ==
    {b \in BulkArgs :
        /\ b.omits = {}
        /\ Len(b.items) <= 1
        /\ \A i \in 1..Len(b.items) :
              /\ DOMAIN b.items[i] = Fields
              /\ b.items[i]["_id"] =
                    (IF b.op = "bulkCreate" THEN 1 ELSE [kind |-> "ObjectID", v |-> 1])}
HandleCollections == {{}, {[_id |-> 1, status |-> "done"]}}
InitHandle ==
    \E c \in HandleCollections, b \in HandleBulkArgs :
        Start(c, [status |-> {}, _id |-> {}], b)

NextHandle ==
    \/ Next
    \/ NextBatch
    \/ bulkCreate
    \/ bulkUpdate
    \/ bulkUpdateByQuery
    \/ executeResolved
    \/ executeRejected

SpecHandle == InitHandle /\ [][NextHandle]_vars

\* ------------------------------------------------------------------ claims
\* The documents that matched the query this run was called with, and their
\* number.
Matching == {d \in store : Matches(d, arg0)}
MatchingCount == Cardinality(Matching)
CeilDiv(a, b) == (a + b - 1) \div b
Ascending(s) == \A i, j \in 1..Len(s) : i < j => s[i]._id < s[j]._id
\* A traversal ran to its end: no find and no processPage call failed.
Completed == pc = "idle" /\ run > 0 /\ ret.settled = "fulfilled"
HasFullWindow(ws) == \E i \in 1..Len(ws) : Len(ws[i]) = pageSize
\* The windows of this run whose processPage call has resolved.
ResolvedCount ==
    IF pc = "handler" \/ ret = Rejected(HandlerMessage)
    THEN Len(windows) - 1 ELSE Len(windows)

\* An envelope that reports an empty result: success, a text, no resp.
IsEmptyResult(r) ==
    /\ r.settled = "fulfilled"
    /\ r.value.type = "envelope"
    /\ r.value.status
    /\ r.value.text # Absent
    /\ r.value.resp = Absent

\* C1: a complete traversal of a static collection with n matching documents
\* and page size p invokes the handler on exactly ceil(n/p) windows, each
\* ascending by _id and of length <= p, and the windows concatenated in call
\* order are the matching documents in ascending _id order, each exactly once.
C1_WindowsCoverCollection ==
    Completed =>
        /\ Len(windows) = CeilDiv(MatchingCount, pageSize)
        /\ \A i \in 1..Len(windows) :
              Len(windows[i]) <= pageSize /\ Ascending(windows[i])
        /\ LET all == Flatten(windows)
           IN  /\ Ascending(all)
               /\ Len(all) = MatchingCount
               /\ {all[i] : i \in 1..Len(all)} = Matching

C1_Witness ==
    /\ Completed
    /\ Len(windows) >= 2
    /\ Len(windows[Len(windows)]) < pageSize
    /\ Len(Flatten(windows)) = MatchingCount

\* C2: a complete traversal issues exactly floor(n/p) + 1 fetches: no fetch
\* follows a window shorter than p, and when n is a positive multiple of p
\* one more fetch follows the last full window and returns empty.
C2_FetchCount ==
    Completed =>
        /\ fetches = (MatchingCount \div pageSize) + 1
        /\ (MatchingCount % pageSize # 0 => fetches = Len(windows))
        /\ (MatchingCount % pageSize = 0 =>
               fetches = Len(windows) + 1 /\ documents = <<>>)

C2_Witness ==
    /\ Completed
    /\ MatchingCount >= 2
    /\ MatchingCount % pageSize = 0
    /\ fetches = Len(windows) + 1
    /\ pageSize >= 2

\* C5 (as stated): a second complete run given the same query object as the
\* first complete run delivers the same sequence of windows.
C5_SameObjectSameWindows ==
    (Completed /\ run >= 2 /\ prev.ret.settled = "fulfilled" /\ sameObject)
        => windows = prev.windows

\* C5 (amended): a second complete run delivers the same sequence of windows
\* as the first when it is given a fresh copy of the query the first run was
\* called with, or the same query object and the first run delivered no full
\* window.
C5_RerunSameWindows ==
    (/\ Completed
     /\ run >= 2
     /\ prev.ret.settled = "fulfilled"
     /\ \/ ~sameObject /\ prev.arg0 = orig
        \/ sameObject /\ ~HasFullWindow(prev.windows))
        => windows = prev.windows

C5_Witness ==
    /\ Completed
    /\ run >= 2
    /\ prev.ret.settled = "fulfilled"
    /\ sameObject
    /\ ~HasFullWindow(prev.windows)
    /\ prev.windows # <<>>
    /\ windows = prev.windows

\* C6 (as stated): after a traversal the query object the caller passed has
\* the fields and values it had before the call.
C6_QueryUntouched == (pc = "idle" /\ run > 0) => query = arg0

\* C6 (amended): the paginator writes into the query object it was given:
\* once processPage has resolved on a full window, the object's _id is
\* {$gt: last key of the latest such window}; until then _id is as passed;
\* the other fields keep their values throughout.
C6_QueryOverwritten ==
    run > 0 =>
        /\ query.status = arg0.status
        /\ LET full == {i \in 1..ResolvedCount : Len(windows[i]) = pageSize}
           IN  IF full = {}
               THEN query._id = arg0._id
               ELSE LET i == CHOOSE m \in full : \A k \in full : k <= m
                    IN  query._id = {windows[i][Len(windows[i])]._id}

C6_Witness ==
    /\ Completed
    /\ arg0.status # {}
    /\ HasFullWindow(windows)
    /\ query # arg0
    /\ query._id = {windows[Len(windows)][pageSize]._id}

\* C10: when a fetch fails the traversal is over with that failure: the
\* promise has rejected with the driver's error, the handler was invoked
\* only on the windows of the earlier fetches, and nothing is running that
\* would fetch or invoke the handler again.
C10_FailedFetchAborts ==
    lastFetch = "failed" =>
        /\ pc = "idle"
        /\ ret = Rejected(DriverMessage)
        /\ Len(windows) = fetches - 1
        /\ ResolvedCount = Len(windows)

C10_Witness ==
    /\ lastFetch = "failed"
    /\ fetches >= 2
    /\ pc = "idle"
    /\ ret = Rejected(DriverMessage)

\* C11: when processPage fails on a window, full or partial, the traversal
\* is over with the handler's failure as its outcome: the failing window is
\* the last one fetched and the last one handed to the handler, and the
\* query's lower bound is the one that window was fetched with (the last
\* key of the window before it, or the bound the caller passed), so it lies
\* below every key of the failing window.
C11_HandlerFailureAborts ==
    ret = Rejected(HandlerMessage) =>
        /\ pc = "idle"
        /\ windows # <<>>
        /\ fetches = Len(windows)
        /\ lastFetch = "ok"
        /\ documents = windows[Len(windows)]
        /\ LET n == Len(windows)
           IN  /\ query._id = (IF n = 1 THEN arg0._id
                               ELSE {windows[n - 1][Len(windows[n - 1])]._id})
               /\ \A k \in query._id : k < windows[n][1]._id

C11_Witness ==
    /\ ret = Rejected(HandlerMessage)
    /\ pc = "idle"
    /\ Len(windows) >= 2
    /\ Len(windows[Len(windows)]) = pageSize
    /\ query._id = {windows[Len(windows) - 1][pageSize]._id}

\* C13: a call of processABatchOfDocuments on an initialized handle issues
\* exactly one find and never writes to the query object.  The window is
\* the (at most batchSize) matching documents of lowest _id, ascending.  On
\* an empty window the call resolves with false and processBatch is not
\* invoked; otherwise processBatch is invoked once, on that window, and what
\* the promise it returns settles with is what the call settles with.
C13_SingleWindow ==
    /\ fetcher.fetches <= 1
    /\ Len(fetcher.calls) <= 1
    /\ fetcher # NoFetch => query = fetcher.arg0
    /\ (pc = "idle" /\ fetcher.ret.settled # "pending"
            /\ fetcher.ret # Fulfilled(Envelope(FALSE, Absent, TypeErrorMessage))) =>
          LET docs == fetcher.documents
              keys == {docs[i]._id : i \in 1..Len(docs)}
              match == {d \in store : Matches(d, fetcher.arg0)}
              failed == fetcher.ret = Fulfilled(Envelope(FALSE, Absent, DriverMessage))
          IN  /\ fetcher.fetches = 1
              /\ Len(docs) <= fetcher.batchSize
              /\ Ascending(docs)
              /\ \A i \in 1..Len(docs) : docs[i] \in match
              /\ ~failed => /\ Len(docs) = Min(fetcher.batchSize, Cardinality(match))
                            /\ \A d \in match : \A k \in keys : d._id < k => d._id \in keys
              /\ (~failed /\ docs = <<>>) =>
                     fetcher.ret = Fulfilled(False) /\ fetcher.calls = <<>>
              /\ docs # <<>> => fetcher.calls = <<docs>> /\ fetcher.handler # "none"
              /\ fetcher.handler = "resolved" => fetcher.ret = Fulfilled(HandlerValue)
              /\ fetcher.handler = "rejected" => fetcher.ret = Rejected(HandlerMessage)

C13_Witness ==
    /\ pc = "idle"
    /\ fetcher.handler = "resolved"
    /\ fetcher.ret = Fulfilled(HandlerValue)
    /\ fetcher.batchSize >= 2
    /\ Len(fetcher.documents) = fetcher.batchSize
    /\ Cardinality({d \in store : Matches(d, fetcher.arg0)}) > fetcher.batchSize
    /\ fetcher.arg0.status # {}

\* An operation ended in failure: its promise rejected, or was fulfilled
\* with an envelope of status false.
IsFailure(r) ==
    \/ r.settled = "rejected"
    \/ r.settled = "fulfilled" /\ r.value.type = "envelope" /\ ~r.value.status
BulkOps == {"bulkCreate", "bulkUpdate", "bulkUpdateByQuery"}
\* A step taken while the handle is null: the paginator and the batch
\* fetcher end in failure with no find issued and no handler invoked, and
\* a bulk operation (given an empty list too when withEmpty, otherwise only
\* when not given an empty list) ends in failure with no batch initialized
\* and execute not called.
NullHandleStep(withEmpty) ==
    dbObject = "null" =>
        /\ pc = "fetch" =>
              /\ pc' = "idle"
              /\ IsFailure(ret')
              /\ fetches' = fetches
              /\ windows' = windows
        /\ pc = "batch fetch" =>
              /\ pc' = "idle"
              /\ IsFailure(fetcher'.ret)
              /\ fetcher'.fetches = 0
              /\ fetcher'.calls = <<>>
        /\ (out' # out /\ out'.op \in BulkOps /\ (withEmpty \/ out'.arg # "empty")) =>
              /\ pc' = "idle"
              /\ IsFailure(out'.ret)
              /\ out'.driver = "none"
              /\ batch' = {}
              /\ executes' = 0

\* C12 (as stated): while the handle is null every paginator, batch fetcher
\* and bulk operation, an empty operation list included, ends in failure
\* without a store command and without a handler invocation.
C12_NullHandleAlwaysFails == [][NullHandleStep(TRUE)]_vars

\* C12 (amended): while the handle is null the paginator, the batch fetcher
\* and every bulk operation that is not given an empty or missing list end
\* in failure without a store command and without a handler invocation;
\* bulkCreate and bulkUpdate given an empty or missing list return their
\* success envelope with a text, also without touching the store.
C12_NullHandleFailsUnlessEmpty ==
    [][/\ NullHandleStep(FALSE)
       /\ (dbObject = "null" /\ out' # out /\ out'.op \in BulkOps /\ out'.arg = "empty") =>
             /\ IsEmptyResult(out'.ret)
             /\ out'.driver = "none"
             /\ pc' = "idle"
             /\ batch' = {}
             /\ executes' = 0]_vars

C12_Witness ==
    /\ dbObject = "null"
    /\ pc = "idle"
    /\ run > 0
    /\ ret = Rejected(TypeErrorMessage)
    /\ fetches = 0
    /\ fetcher.ret = Fulfilled(Envelope(FALSE, Absent, TypeErrorMessage))
    /\ out.op = "bulkUpdate"
    /\ out.arg = "nonempty"
    /\ out.ret = Rejected(TypeErrorMessage)
    /\ store # {}

\* C14: on a collection that does not change, when every find is answered
\* and every call of processPage settles, a traversal that was started
\* returns.  Each advance of the query strictly raises its _id lower bound,
\* the first key of every window is strictly greater than the last key of
\* the window before it, and no window is delivered twice.
StrictlyAdvancing(ws) ==
    /\ \A i \in 2..Len(ws) : ws[i][1]._id > ws[i - 1][Len(ws[i - 1])]._id
    /\ \A i, j \in 1..Len(ws) : ws[i] = ws[j] => i = j
BoundRaised ==
    (run' = run /\ query'._id # query._id) =>
        /\ query'._id # {}
        /\ \A k \in query._id : \A m \in query'._id : m > k
C14_TraversalTerminates ==
    /\ [](\A i \in 1..Len(windows) : windows[i] # <<>>)
    /\ []StrictlyAdvancing(windows)
    /\ [][BoundRaised]_vars
    /\ (pc # "idle") ~> (pc = "idle")

C14_Witness ==
    /\ Completed
    /\ Len(windows) >= 3
    /\ arg0._id # {}
    /\ query._id # arg0._id
    /\ documents = <<>>

\* The inserts of this run the claim is about: the document matches the
\* query the run was called with and its _id is greater than the last key
\* of the window most recently delivered when it was inserted.
InsertedAbove ==
    {r \in inserted : Matches(r.doc, arg0) /\ \A k \in r.lastKey : r.doc._id > k}
\* The document of the insert r was handed to processPage in a window later
\* than those delivered when it was inserted.
DeliveredLater(r) ==
    \E i \in (r.delivered + 1)..Len(windows) :
        \E j \in 1..Len(windows[i]) : windows[i][j] = r.doc

\* C15 (as stated): a matching document another process inserts during a
\* traversal, above the last key of the window most recently delivered, is
\* delivered in a later window of that traversal, at whatever point it was
\* inserted.
C15_InsertAboveDelivered ==
    Completed => \A r \in InsertedAbove : DeliveredLater(r)

\* C15 (amended): such a document is delivered in a later window of that
\* traversal unless it was inserted while processPage was running on a
\* window shorter than pageSize, the last window: no find follows it.
C15_InsertAboveDeliveredBeforeLastWindow ==
    Completed => \A r \in InsertedAbove : ~r.onShortWindow => DeliveredLater(r)

C15_Witness ==
    /\ Completed
    /\ \E r \in InsertedAbove :
          /\ ~r.onShortWindow
          /\ r.delivered >= 1
          /\ DeliveredLater(r)
          /\ r.doc._id < MaxKey
          /\ Len(windows) >= 3

\* C3 (as stated): the $set payload of every queued update operation holds
\* no field the omit list names, whatever the length of the omit list.
C3_OmittedFieldsNeverSet ==
    \A b \in batch : \A i \in 1..Len(b) :
        b[i].kind = "updateOne" =>
            \A o \in bulkArgs.omits : \A j \in 1..Len(o) : o[j] \notin DOMAIN b[i].set

\* C4 (as stated): the filter of every queued update operation selects the
\* _id its payload was given, also when the omit list names _id.  Stated for
\* the payloads whose _id is an ObjectID or the 24 hex characters of one,
\* the values new ObjectID(id) keeps.
C4_FilterSelectsSuppliedId ==
    \A b \in batch : \A i \in 1..Len(b) :
        (/\ b[i].kind = "updateOne"
         /\ "_id" \in DOMAIN bulkArgs.items[i]
         /\ bulkArgs.items[i]["_id"].kind \in {"ObjectID", "hex"})
            => b[i].filter = {[kind |-> "ObjectID", v |-> bulkArgs.items[i]["_id"].v]}

\* The envelopes the operations have returned.
ReturnedEnvelopes ==
    {r.value : r \in {x \in {ret, out.ret} :
                        x.settled = "fulfilled" /\ x.value.type = "envelope"}}
CarriesResp(e) == e.resp \notin {Absent, Undefined}

\* The last operation was bulkCreate or bulkUpdate, called on an initialized
\* handle with a list of at least one element.
BulkCallOnList ==
    /\ out.op \in {"bulkCreate", "bulkUpdate"}
    /\ bulkArgs.given
    /\ bulkArgs.items # <<>>
    /\ dbObject = "db"
\* One batch holds one operation per element of the list, in the order of
\* the list, execute was called once, and once the store has resolved it
\* with an aggregate report the envelope is {status: true, resp: report}.
QueuedAndExecutedOnce ==
    /\ Cardinality(batch) = 1
    /\ \A b \in batch :
          /\ Len(b) = Len(bulkArgs.items)
          /\ \A i \in 1..Len(b) :
                IF out.op = "bulkCreate"
                THEN b[i].kind = "insert" /\ b[i].set = bulkArgs.items[i]
                ELSE b[i].kind = "updateOne"
    /\ executes = 1
    /\ out.driver = "ok" =>
          /\ report \in Reports
          /\ out.ret = Fulfilled(Envelope(TRUE, report, Absent))

C17_EmptyListNoStore ==
    (/\ out.op \in {"bulkCreate", "bulkUpdate"}
     /\ ~bulkArgs.given \/ bulkArgs.items = <<>>)
        => /\ pc = "idle"
           /\ IsEmptyResult(out.ret)
           /\ out.driver = "none"
           /\ batch = {}
           /\ executes = 0
           /\ report = NoReport

C17_Witness ==
    /\ out.op = "bulkUpdate"
    /\ bulkArgs.given
    /\ bulkArgs.items = <<>>
    /\ bulkArgs.omits # {}
    /\ dbObject = "db"
    /\ out.ret = Fulfilled(Envelope(TRUE, Absent, "No updates found"))
    /\ batch = {}

\* C18: when processPage deletes documents of the window it is given, or
\* updates their status, a traversal that runs to its end has delivered the
\* documents that matched the query when the traversal was called, each
\* exactly once, in ascending _id order.
C18_HandlerWritesKeepCoverage ==
    Completed =>
        LET atStart == {d \in snapshot : Matches(d, arg0)}
            all == Flatten(windows)
        IN  /\ Len(all) = Cardinality(atStart)
            /\ {all[i] : i \in 1..Len(all)} = atStart
            /\ Ascending(all)

C18_Witness ==
    /\ Completed
    /\ Len(windows) >= 2
    /\ pageSize >= 2
    /\ arg0.status # {}
    /\ \E i \in 1..Len(windows[1]) : \A d \in store : d._id # windows[1][i]._id
    /\ \E i \in 1..Len(windows[1]) :
          \E d \in store : d._id = windows[1][i]._id /\ d.status # windows[1][i].status
    /\ Len(Flatten(windows)) = Cardinality({d \in snapshot : Matches(d, arg0)})

\* The windows ws hold the documents of the collection that match q, each
\* exactly once, in ascending _id order.
Covers(ws, q) ==
    LET all == Flatten(ws)
        match == {d \in store : Matches(d, q)}
    IN  /\ Len(all) = Cardinality(match)
        /\ {all[i] : i \in 1..Len(all)} = match
        /\ Ascending(all)
OtherCompleted == other.pc = "idle" /\ other.ret.settled = "fulfilled"

\* C19 (as stated): two traversals started with the same query object, the
\* second while the first is in progress, each deliver every document that
\* matches the query the caller wrote, exactly once, in ascending _id order.
C19_BothDeliverEverything ==
    /\ (Completed /\ run = 1) => Covers(windows, orig)
    /\ OtherCompleted => Covers(other.windows, orig)

\* C19 (amended): each of the two delivers, exactly once and in ascending
\* _id order, the documents that match the query object as it stood when
\* that traversal was called: a traversal called after the other one has
\* advanced the shared object starts after the other's last full window.
C19_EachDeliversFromItsCall ==
    /\ Completed => Covers(windows, arg0)
    /\ OtherCompleted => Covers(other.windows, other.arg0)

C19_Witness ==
    /\ Completed
    /\ run = 1
    /\ OtherCompleted
    /\ Len(windows) >= 2
    /\ other.windows # <<>>
    /\ other.arg0._id # arg0._id
    /\ other.fetches >= 2
    /\ Covers(windows, arg0)
    /\ ~Covers(other.windows, orig)

\* C20 (as stated): when the promise of a connect-per-call function has
\* settled, the connection the call opened is closed, and so is every
\* connection an earlier call opened.
C20_ConnectionClosedOnSettle ==
    (legacy.pc = "idle" /\ legacy.ret.settled # "pending") =>
        /\ legacy.conn # "open"
        /\ legacy.leaked = 0

\* C7 (as stated): in every envelope an operation returns, status = false
\* implies text populated and resp absent, and status = true with resp
\* absent implies text populated.
C7_EnvelopeExclusive ==
    \A e \in ReturnedEnvelopes :
        /\ ~e.status => (e.text # Absent /\ ~CarriesResp(e))
        /\ (e.status /\ ~CarriesResp(e)) => e.text # Absent

\* C8 (as stated): a fetch of the paginator that returns no document, and
\* insertIntoDb, bulkCreate or bulkUpdate given an empty list, return a
\* success envelope with an informational text and no resp.
C8_EmptyIsSuccess ==
    /\ (pc = "idle" /\ lastFetch = "ok" /\ documents = <<>>) => IsEmptyResult(ret)
    /\ (out.op \in {"insertIntoDb", "bulkCreate", "bulkUpdate"} /\ out.arg = "empty")
           => IsEmptyResult(out.ret)

\* C9 (as stated): when the store fails a command of an operation, the
\* operation's promise is fulfilled with {status: false, text: <driver
\* message>}: it never rejects and never reports status = true.
C9_DriverFailureIsEnvelope ==
    /\ lastFetch = "failed" => ret = Fulfilled(Envelope(FALSE, Absent, DriverMessage))
    /\ out.driver = "failed" => out.ret = Fulfilled(Envelope(FALSE, Absent, DriverMessage))

====
